---- MODULE Spec2Model ----
(***************************************************************************)
(* Store lifecycle orchestrator of the Store-Orchestration-Platform API:   *)
(* the stores/audit_log tables (db.js), the REST handlers                  *)
(* (routes/stores.js), the provision and delete workflows with their       *)
(* in-memory operation lock and deadline timer, and the startup            *)
(* reconciler (services/provisioner.js), running on one Node.js event      *)
(* loop against a Helm/Kubernetes cluster.                                 *)
(*                                                                         *)
(* One action is one run-to-completion segment of JavaScript: a request    *)
(* handler, a setImmediate callback up to its first await, the             *)
(* continuation of a workflow after an awaited external command returns,   *)
(* or a timer callback.                                                    *)
(***************************************************************************)
EXTENDS Integers, Sequences, FiniteSets, TLC

\* ------------------------------------------------------------------ bounds
\* Number of store ids the uuid generator can hand out in a run.
NumIds == 2
\* Workflows (provisionStore / deleteStore calls past their lock check)
\* that can be in flight at once.
MaxTasks == 2
\* setImmediate callbacks that can be queued at once.
MaxImmediates == 2
\* Rows the audit_log table can hold in a run.
MaxAudit == 7
\* Process crashes in a run.
MaxCrashes == 1
\* config.maxStores (MAX_STORES, default 10), scaled down.
MaxStores == 1
\* waitForPodsReady's maxAttempts (default 60), scaled down.
MaxAttempts == 2

\* ------------------------------------------------------- program constants
\* name.trim().slice(0, 100)
MaxNameLen == 100
\* p.restarts > 5
MaxRestarts == 5

StoreIds == 1..NumIds
TaskIds == 1..MaxTasks

NULL == "NULL"
UNDEFINED == "undefined"

VARIABLES
    up,                \* the API process is running
    stores,            \* table stores: id -> row
    audit,             \* table audit_log, in id order
    activeOperations,  \* provisioner.js: Map storeId -> operation kind
    immediates,        \* setImmediate queue of the event loop
    tasks,             \* workflows suspended at an await: task id -> frame
    recon,             \* recoverOnStartup: stuck stores still to be checked
    release,           \* cluster: store ids whose Helm release exists
    namespace,         \* cluster: store ids whose namespace exists
    crashes,           \* crashes so far
    response           \* HTTP response sent by the step just taken, if any

vars == <<up, stores, audit, activeOperations, immediates, tasks, recon,
          release, namespace, crashes, response>>

\* ------------------------------------------------------------- statuses
RETRYABLE_STATES == {"failed"}
\* Faulty variant: a provisioning store cannot be deleted.
DELETABLE_STATES_WithoutProvisioning == {"ready", "failed", "queued"}
DELETABLE_STATES == {"ready", "failed", "queued", "provisioning"}
TERMINAL_STATES == {"deleted"}

\* ------------------------------------------------------------- messages
MsgTimeout == "Provisioning timed out"
MsgHelmFailed == "Helm command failed: <stderr>"
MsgPodsFailed == "Pods failed: <names>. Events: <summary>"
MsgNotReady == "Pods did not become ready within <maxAttempts * 5> seconds"
MsgRecoveryFailed == "Recovery failed: <error.message>"
MsgRestarted == "API restarted during provisioning. Click retry to re-attempt."
MsgMedusa == "MedusaJS engine is not yet implemented. Please use WooCommerce."
MsgNotFoundProvision == "Store <id> not found in database"
MsgDeleteNotFound == "Delete failed: Store <id> not found"

\* ------------------------------------------------------------ tables (db)
DB == [stores |-> stores, audit |-> audit]

\* Faulty variant: the INSERT reuses the id of the last row.
auditLogReusesId(au, storeId, action, details) ==
    Append(au, [id |-> IF au = <<>> THEN 1 ELSE au[Len(au)].id,
                store_id |-> storeId,
                action |-> action, details |-> details])

\* audit.log(storeId, action, details): INSERT with an AUTOINCREMENT id.
auditLog(au, storeId, action, details) ==
    Append(au, [id |-> Len(au) + 1, store_id |-> storeId,
                action |-> action, details |-> details])

\* Faulty variant: the row is inserted without a namespace of its own.
storeCreateDefaultNamespace(db, id, name, engine, ns, helmRelease) ==
    [stores |-> (id :> [name |-> name, engine |-> engine, status |-> "queued",
                        store_url |-> NULL, admin_url |-> NULL,
                        error_message |-> NULL, namespace |-> 0,
                        helm_release |-> helmRelease]) @@ db.stores,
     audit |-> auditLog(db.audit, id, "create",
                        [name |-> name, engine |-> engine])]

\* store.create: INSERT at status 'queued', then audit 'create'.
storeCreate(db, id, name, engine, ns, helmRelease) ==
    [stores |-> (id :> [name |-> name, engine |-> engine, status |-> "queued",
                        store_url |-> NULL, admin_url |-> NULL,
                        error_message |-> NULL, namespace |-> ns,
                        helm_release |-> helmRelease]) @@ db.stores,
     audit |-> auditLog(db.audit, id, "create",
                        [name |-> name, engine |-> engine])]

\* Faulty variant: the UPDATE keeps the old error_message.
updateStatusKeepsMessage(db, id, status, errorMessage) ==
    [stores |-> IF id \in DOMAIN db.stores
                THEN [db.stores EXCEPT ![id].status = status]
                ELSE db.stores,
     audit |-> auditLog(db.audit, id, "status_change",
                        [status |-> status, errorMessage |-> errorMessage])]

\* store.updateStatus: UPDATE status and error_message, then audit.
updateStatus(db, id, status, errorMessage) ==
    [stores |-> IF id \in DOMAIN db.stores
                THEN [db.stores EXCEPT ![id].status = status,
                                       ![id].error_message = errorMessage]
                ELSE db.stores,
     audit |-> auditLog(db.audit, id, "status_change",
                        [status |-> status, errorMessage |-> errorMessage])]

\* Faulty variant: the UPDATE sets the status but not the URLs.
markReadyWithoutUrls(db, id, storeUrl, adminUrl) ==
    [stores |-> IF id \in DOMAIN db.stores
                THEN [db.stores EXCEPT ![id].status = "ready",
                                       ![id].error_message = NULL]
                ELSE db.stores,
     audit |-> auditLog(db.audit, id, "status_change",
                        [status |-> "ready", storeUrl |-> storeUrl,
                         adminUrl |-> adminUrl])]

\* store.markReady: UPDATE URLs, status 'ready', error NULL, then audit.
markReady(db, id, storeUrl, adminUrl) ==
    [stores |-> IF id \in DOMAIN db.stores
                THEN [db.stores EXCEPT ![id].status = "ready",
                                       ![id].store_url = storeUrl,
                                       ![id].admin_url = adminUrl,
                                       ![id].error_message = NULL]
                ELSE db.stores,
     audit |-> auditLog(db.audit, id, "status_change",
                        [status |-> "ready", storeUrl |-> storeUrl,
                         adminUrl |-> adminUrl])]

\* Faulty variant: the status is set to 'deleted' and nothing is logged.
markDeletedWithoutAudit(db, id) ==
    [stores |-> IF id \in DOMAIN db.stores
                THEN [db.stores EXCEPT ![id].status = "deleted"]
                ELSE db.stores,
     audit |-> db.audit]

\* store.markDeleted: UPDATE status 'deleted', then audit 'delete'.
markDeleted(db, id) ==
    [stores |-> IF id \in DOMAIN db.stores
                THEN [db.stores EXCEPT ![id].status = "deleted"]
                ELSE db.stores,
     audit |-> auditLog(db.audit, id, "delete", <<>>)]

\* Faulty variant: failed stores are counted as active.
getActiveCountCountsFailed(st) ==
    Cardinality({id \in DOMAIN st : st[id].status # "deleted"})

\* Faulty variant: queued stores are left out of the count.
getActiveCountSkipsQueued(st) ==
    Cardinality({id \in DOMAIN st :
                    st[id].status \notin {"deleted", "failed", "queued"}})

\* store.getActiveCount: COUNT(*) WHERE status NOT IN ('deleted','failed').
getActiveCount(st) ==
    Cardinality({id \in DOMAIN st : st[id].status \notin {"deleted", "failed"}})

\* -------------------------------------------------------------- engines
Engines == {"woocommerce", "medusa"}

\* engine.validate()
validate(engine) ==
    IF engine = "woocommerce" THEN [valid |-> TRUE, error |-> NULL]
    ELSE [valid |-> FALSE, error |-> MsgMedusa]

BaseDomain == "127.0.0.1.nip.io"

\* engine.getUrls(storeId)
getUrls(engine, id) ==
    IF engine = "woocommerce"
    THEN [storeUrl |-> "http://store-" \o ToString(id) \o "." \o BaseDomain,
          adminUrl |-> "http://store-" \o ToString(id) \o "." \o BaseDomain
                           \o "/wp-admin"]
    ELSE [storeUrl |-> "http://store-" \o ToString(id) \o ".localhost:8000",
          adminUrl |-> "http://store-" \o ToString(id) \o ".localhost:7001"]

\* --------------------------------------------------- request validation
\* A request body's name: absent, a non-string, or a string of characters.
NameInputs ==
    {[type |-> "undefined", chars |-> <<>>],
     [type |-> "number", chars |-> <<>>],
     [type |-> "string", chars |-> <<>>],
     [type |-> "string", chars |-> <<" ">>],
     [type |-> "string", chars |-> <<" ", "x">>],
     [type |-> "string", chars |-> <<"a", "b">>],
     [type |-> "string", chars |-> <<" ", "a", "b", " ">>]}

\* A request body's engine: absent or a string.
EngineInputs == {UNDEFINED, "woocommerce", "medusa", "shopify"}

RECURSIVE trimStart(_)
trimStart(s) ==
    IF s # <<>> /\ Head(s) = " " THEN trimStart(Tail(s)) ELSE s

RECURSIVE trimEnd(_)
trimEnd(s) ==
    IF s # <<>> /\ s[Len(s)] = " " THEN trimEnd(SubSeq(s, 1, Len(s) - 1))
    ELSE s

\* String.prototype.trim
trim(s) == trimEnd(trimStart(s))

\* String.prototype.slice(0, n)
slice0(s, n) == SubSeq(s, 1, IF Len(s) < n THEN Len(s) ELSE n)

\* Faulty variant: the engine is checked before the length of the name.
validateCreateStoreEngineFirst(name, engineIn) ==
    LET engine == IF engineIn = UNDEFINED THEN "woocommerce" ELSE engineIn IN
    IF name.type # "string" \/ name.chars = <<>> \/ Len(trim(name.chars)) = 0
    THEN [ok |-> FALSE, code |-> "MISSING_STORE_NAME",
          name |-> <<>>, engine |-> engine]
    ELSE IF engine \notin {"woocommerce", "medusa"}
    THEN [ok |-> FALSE, code |-> "INVALID_ENGINE",
          name |-> <<>>, engine |-> engine]
    ELSE IF Len(trim(name.chars)) < 2
    THEN [ok |-> FALSE, code |-> "INVALID_STORE_NAME",
          name |-> <<>>, engine |-> engine]
    ELSE [ok |-> TRUE, code |-> "OK",
          name |-> slice0(trim(name.chars), MaxNameLen), engine |-> engine]

\* validateCreateStore(body): the error code thrown, or the cleaned input.
validateCreateStore(name, engineIn) ==
    LET engine == IF engineIn = UNDEFINED THEN "woocommerce" ELSE engineIn IN
    IF name.type # "string" \/ name.chars = <<>> \/ Len(trim(name.chars)) = 0
    THEN [ok |-> FALSE, code |-> "MISSING_STORE_NAME",
          name |-> <<>>, engine |-> engine]
    ELSE IF Len(trim(name.chars)) < 2
    THEN [ok |-> FALSE, code |-> "INVALID_STORE_NAME",
          name |-> <<>>, engine |-> engine]
    ELSE IF engine \notin {"woocommerce", "medusa"}
    THEN [ok |-> FALSE, code |-> "INVALID_ENGINE",
          name |-> <<>>, engine |-> engine]
    ELSE [ok |-> TRUE, code |-> "OK",
          name |-> slice0(trim(name.chars), MaxNameLen), engine |-> engine]

\* ------------------------------------------------------ query parameters
\* req.query.limit: absent, or the characters of the value given.
LimitInputs ==
    {[type |-> "undefined", chars |-> <<>>],
     [type |-> "string", chars |-> <<>>],
     [type |-> "string", chars |-> <<"a", "b">>],
     [type |-> "string", chars |-> <<"-">>],
     [type |-> "string", chars |-> <<"0">>],
     [type |-> "string", chars |-> <<"-", "0">>],
     [type |-> "string", chars |-> <<"1">>],
     [type |-> "string", chars |-> <<"2">>],
     [type |-> "string", chars |-> <<"-", "3">>],
     [type |-> "string", chars |-> <<"+", "4">>],
     [type |-> "string", chars |-> <<"0", "0", "7">>],
     [type |-> "string", chars |-> <<" ", "9">>],
     [type |-> "string", chars |-> <<"1", "2", "a">>],
     [type |-> "string", chars |-> <<"1", ".", "9">>],
     [type |-> "string", chars |-> <<"1", "0", "0">>],
     [type |-> "string", chars |-> <<"4", "9", "9">>],
     [type |-> "string", chars |-> <<"5", "0", "0">>],
     [type |-> "string", chars |-> <<"5", "0", "1">>],
     [type |-> "string", chars |-> <<"9", "9", "9", "9">>]}

Digits == {"0", "1", "2", "3", "4", "5", "6", "7", "8", "9"}

DigitValue(c) ==
    CASE c = "0" -> 0 [] c = "1" -> 1 [] c = "2" -> 2 [] c = "3" -> 3
      [] c = "4" -> 4 [] c = "5" -> 5 [] c = "6" -> 6 [] c = "7" -> 7
      [] c = "8" -> 8 [] c = "9" -> 9

\* A JavaScript number: NaN, or an integer.
NaN == [isNaN |-> TRUE, value |-> 0]
Number(n) == [isNaN |-> FALSE, value |-> n]

\* The longest prefix of s made of digits.
RECURSIVE digitPrefix(_)
digitPrefix(s) ==
    IF s # <<>> /\ Head(s) \in Digits
    THEN <<Head(s)>> \o digitPrefix(Tail(s))
    ELSE <<>>

RECURSIVE decimalValue(_)
decimalValue(ds) ==
    IF ds = <<>> THEN 0
    ELSE 10 * decimalValue(SubSeq(ds, 1, Len(ds) - 1))
         + DigitValue(ds[Len(ds)])

\* parseInt(s, 10): leading white space is skipped, then an optional sign,
\* then the longest run of digits; NaN when there is no digit there.
parseInt(s) ==
    LET t == trimStart(s)
        signed == t # <<>> /\ Head(t) \in {"-", "+"}
        ds == digitPrefix(IF signed THEN Tail(t) ELSE t)
    IN IF ds = <<>> THEN NaN
       ELSE IF signed /\ Head(t) = "-" THEN Number(0 - decimalValue(ds))
       ELSE Number(decimalValue(ds))

\* GET /audit: Math.min(Math.max(parseInt(limit || '100', 10) || 100, 1), 500).
\* undefined and '' are falsy; so are NaN and 0.
auditLimit(q) ==
    LET text == IF q.type = "undefined" \/ q.chars = <<>>
                THEN <<"1", "0", "0">> ELSE q.chars
        parsed == parseInt(text)
        n == IF parsed.isNaN \/ parsed.value = 0 THEN 100 ELSE parsed.value
        atLeast1 == IF n > 1 THEN n ELSE 1
    IN IF atLeast1 < 500 THEN atLeast1 ELSE 500

\* audit.getAll(limit): SELECT ... ORDER BY created_at DESC LIMIT ?
RECURSIVE auditGetAll(_, _)
auditGetAll(au, limit) ==
    IF au = <<>> \/ limit <= 0 THEN <<>>
    ELSE <<au[Len(au)]>> \o auditGetAll(SubSeq(au, 1, Len(au) - 1), limit - 1)

\* ------------------------------------------------------------ responses
NoResponse == [route |-> "none", id |-> 0, status |-> 0, code |-> "none"]

Reply(route, id, status, code) ==
    [route |-> route, id |-> id, status |-> status, code |-> code]

\* --------------------------------------------------------- error handler
\* Errors passed to next(): what express.json() throws on a malformed body,
\* other SyntaxErrors, ApiErrors, and errors of any other class.
ErrorInputs ==
    {[class |-> "SyntaxError", status |-> 400, hasBody |-> TRUE,
      statusCode |-> 400, code |-> UNDEFINED,
      message |-> "Unexpected token } in JSON", stack |-> "SyntaxError at parse"],
     [class |-> "SyntaxError", status |-> 400, hasBody |-> FALSE,
      statusCode |-> 400, code |-> UNDEFINED,
      message |-> "bad request", stack |-> "SyntaxError at route"],
     [class |-> "SyntaxError", status |-> 0, hasBody |-> FALSE,
      statusCode |-> 0, code |-> UNDEFINED,
      message |-> "Unexpected end of JSON input", stack |-> "SyntaxError at JSON.parse"],
     [class |-> "ApiError", status |-> 0, hasBody |-> FALSE,
      statusCode |-> 400, code |-> "INVALID_ENGINE",
      message |-> "Invalid engine", stack |-> "Error at validateCreateStore"],
     [class |-> "ApiError", status |-> 0, hasBody |-> FALSE,
      statusCode |-> 404, code |-> "NOT_FOUND",
      message |-> "Store '1' not found", stack |-> "Error at notFound"],
     [class |-> "ApiError", status |-> 0, hasBody |-> FALSE,
      statusCode |-> 409, code |-> "OPERATION_IN_PROGRESS",
      message |-> "An operation is already in progress for store '1'",
      stack |-> "Error at operationInProgress"],
     [class |-> "ApiError", status |-> 0, hasBody |-> FALSE,
      statusCode |-> 429, code |-> "QUOTA_EXCEEDED",
      message |-> "Store limit reached", stack |-> "Error at quotaExceeded"],
     [class |-> "Error", status |-> 0, hasBody |-> FALSE,
      statusCode |-> 0, code |-> "SQLITE_BUSY",
      message |-> "database is locked", stack |-> "Error at Statement.run"],
     [class |-> "TypeError", status |-> 0, hasBody |-> FALSE,
      statusCode |-> 0, code |-> UNDEFINED,
      message |-> "Cannot read properties of undefined",
      stack |-> "TypeError at router"]}

\* process.env.NODE_ENV
NodeEnvs == {UNDEFINED, "development", "test", "production"}

\* ApiError.prototype.toJSON
toJSON(err) == [code |-> err.code, message |-> err.message]

\* Faulty variant: the stack is sent in production too.
errorHandlerLeaksStack(err, nodeEnv) ==
    IF err.class = "SyntaxError" /\ err.status = 400 /\ err.hasBody
    THEN [status |-> 400,
          error |-> [code |-> "INVALID_JSON",
                     message |-> "Invalid JSON payload provided"]]
    ELSE IF err.class = "ApiError"
    THEN [status |-> err.statusCode, error |-> toJSON(err)]
    ELSE [status |-> 500,
          error |-> [code |-> "INTERNAL_SERVER_ERROR",
                     message |-> IF nodeEnv = "production"
                                 THEN "An unexpected error occurred"
                                 ELSE err.message,
                     stack |-> err.stack]]

\* errorHandler(err, req, res, next): the status and the error object sent.
errorHandler(err, nodeEnv) ==
    IF err.class = "SyntaxError" /\ err.status = 400 /\ err.hasBody
    THEN [status |-> 400,
          error |-> [code |-> "INVALID_JSON",
                     message |-> "Invalid JSON payload provided"]]
    ELSE IF err.class = "ApiError"
    THEN [status |-> err.statusCode, error |-> toJSON(err)]
    ELSE LET isProduction == nodeEnv = "production" IN
         IF isProduction
         THEN [status |-> 500,
               error |-> [code |-> "INTERNAL_SERVER_ERROR",
                          message |-> "An unexpected error occurred"]]
         ELSE [status |-> 500,
               error |-> [code |-> "INTERNAL_SERVER_ERROR",
                          message |-> err.message,
                          stack |-> err.stack]]

\* ------------------------------------------------------------ event loop
\* setImmediate(() => provisioner.<fn>(id)...)
setImmediate(q, fn, id) == Append(q, [fn |-> fn, id |-> id])

\* The uuid of a new store: ids are handed out in increasing order, so the
\* order of ids is the order of created_at.
FreshIds == {i \in StoreIds : i \notin DOMAIN stores
                              /\ \A j \in StoreIds : j < i => j \in DOMAIN stores}

\* Map.prototype.delete
mapDelete(m, k) == [i \in DOMAIN m \ {k} |-> m[i]]

\* Map.prototype.set
mapSet(m, k, v) == [i \in DOMAIN m \cup {k} |-> IF i = k THEN v ELSE m[i]]

\* activeOperations.has(storeId)
lockHeld(id) == id \in DOMAIN activeOperations

\* Faulty variant: the lock is never seen as held.
getOperationStatusAlwaysNull(id) == NULL

\* provisioner.getOperationStatus: activeOperations.get(storeId) || null
getOperationStatus(id) ==
    IF id \in DOMAIN activeOperations THEN activeOperations[id] ELSE NULL

CanLog(n) == Len(audit) + n <= MaxAudit

\* ------------------------------------------------------------ REST routes
\* A handler that throws: the error handler sends the envelope, nothing else.
Reject(route, id, status, code) ==
    /\ response' = Reply(route, id, status, code)
    /\ UNCHANGED <<up, stores, audit, activeOperations, immediates, tasks,
                   recon, release, namespace, crashes>>

\* router.post('/stores')
PostStores(name, engineIn) ==
    /\ up
    /\ LET v == validateCreateStore(name, engineIn) IN
       IF ~v.ok
       THEN Reject("POST /stores", 0, 400, v.code)
       ELSE IF ~validate(v.engine).valid
       THEN Reject("POST /stores", 0, 400, "ENGINE_UNAVAILABLE")
       ELSE IF getActiveCount(stores) >= MaxStores
       THEN Reject("POST /stores", 0, 429, "QUOTA_EXCEEDED")
       ELSE \E id \in FreshIds :
              /\ CanLog(1)
              /\ Len(immediates) < MaxImmediates
              /\ LET d == storeCreate(DB, id, v.name, v.engine, id, id) IN
                    /\ stores' = d.stores
                    /\ audit' = d.audit
              /\ immediates' = setImmediate(immediates, "provisionStore", id)
              /\ response' = Reply("POST /stores", id, 201, "OK")
              /\ UNCHANGED <<up, activeOperations, tasks, recon, release,
                             namespace, crashes>>

\* What stmts.insertAudit.run throws when the INSERT fails.
AuditInsertError ==
    [class |-> "Error", status |-> 0, hasBody |-> FALSE, statusCode |-> 0,
     code |-> UNDEFINED, message |-> "database or disk is full",
     stack |-> "SqliteError at audit.log"]

\* router.post('/stores') when the INSERT of audit.log throws inside
\* store.create: the row is inserted, the error leaves store.create and
\* the try block, and the catch passes it to next().
PostStoresAuditFails(name, engineIn, nodeEnv) ==
    /\ up
    /\ LET v == validateCreateStore(name, engineIn) IN
       /\ v.ok
       /\ validate(v.engine).valid
       /\ getActiveCount(stores) < MaxStores
       /\ \E id \in FreshIds :
             /\ stores' = storeCreate(DB, id, v.name, v.engine, id, id).stores
             /\ LET sent == errorHandler(AuditInsertError, nodeEnv) IN
                response' = [route |-> "POST /stores", id |-> id,
                             status |-> sent.status, code |-> sent.error.code,
                             error |-> sent.error]
    /\ UNCHANGED <<up, audit, activeOperations, immediates, tasks, recon,
                   release, namespace, crashes>>

\* router.delete('/stores/:id')
DeleteStoresId(id) ==
    /\ up
    /\ IF id \notin DOMAIN stores
       THEN Reject("DELETE /stores/:id", id, 404, "NOT_FOUND")
       ELSE IF stores[id].status \in TERMINAL_STATES
       THEN Reject("DELETE /stores/:id", id, 409, "INVALID_STATE_TRANSITION")
       ELSE IF stores[id].status = "deleting"
       THEN Reject("DELETE /stores/:id", id, 409, "OPERATION_IN_PROGRESS")
       ELSE IF stores[id].status \notin DELETABLE_STATES
       THEN Reject("DELETE /stores/:id", id, 409, "INVALID_STATE_TRANSITION")
       ELSE /\ Len(immediates) < MaxImmediates
            /\ immediates' = setImmediate(immediates, "deleteStore", id)
            /\ response' = Reply("DELETE /stores/:id", id, 202, "OK")
            /\ UNCHANGED <<up, stores, audit, activeOperations, tasks, recon,
                           release, namespace, crashes>>

\* router.post('/stores/:id/retry')
PostStoresIdRetry(id) ==
    /\ up
    /\ IF id \notin DOMAIN stores
       THEN Reject("POST /stores/:id/retry", id, 404, "NOT_FOUND")
       ELSE IF stores[id].status \notin RETRYABLE_STATES
       THEN Reject("POST /stores/:id/retry", id, 409,
                   "INVALID_STATE_TRANSITION")
       ELSE IF getOperationStatus(id) # NULL
       THEN Reject("POST /stores/:id/retry", id, 409, "OPERATION_IN_PROGRESS")
       ELSE /\ CanLog(1)
            /\ Len(immediates) < MaxImmediates
            /\ audit' = auditLog(audit, id, "retry",
                           [previousError |-> stores[id].error_message])
            /\ immediates' = setImmediate(immediates, "provisionStore", id)
            /\ response' = Reply("POST /stores/:id/retry", id, 202, "OK")
            /\ UNCHANGED <<up, stores, activeOperations, tasks, recon,
                           release, namespace, crashes>>

\* router.get('/audit')
GetAudit(q) ==
    /\ up
    /\ response' = [route |-> "GET /audit", id |-> 0, status |-> 200,
                    code |-> "OK",
                    audit |-> auditGetAll(audit, auditLimit(q))]
    /\ UNCHANGED <<up, stores, audit, activeOperations, immediates, tasks,
                   recon, release, namespace, crashes>>

\* A request whose handling passes err to next(): app.use(errorHandler).
FailRequest(err, nodeEnv) ==
    /\ up
    /\ LET sent == errorHandler(err, nodeEnv) IN
       response' = [route |-> "errorHandler", id |-> 0,
                    status |-> sent.status, code |-> sent.error.code,
                    error |-> sent.error]
    /\ UNCHANGED <<up, stores, audit, activeOperations, immediates, tasks,
                   recon, release, namespace, crashes>>

\* ---------------------------------------------------------------- cluster
\* What kubectl get pods can report of one pod: phase, Ready condition,
\* summed restart count.
PodKinds ==
    {[phase |-> "Running", ready |-> TRUE, restarts |-> 0],
     [phase |-> "Running", ready |-> TRUE, restarts |-> MaxRestarts + 1],
     [phase |-> "Running", ready |-> FALSE, restarts |-> 0],
     [phase |-> "Running", ready |-> FALSE, restarts |-> MaxRestarts],
     [phase |-> "Running", ready |-> FALSE, restarts |-> MaxRestarts + 1],
     [phase |-> "Succeeded", ready |-> FALSE, restarts |-> 0],
     [phase |-> "Failed", ready |-> FALSE, restarts |-> 0]}

\* Pods one query can list.
MaxPods == 1

\* kubectl.getPodStatuses(namespace): the pods of the namespace, [] when the
\* namespace is missing or the command fails.
PodSnapshots(ns) ==
    IF ns \in namespace
    THEN UNION {[1..n -> PodKinds] : n \in 0..MaxPods}
    ELSE {<<>>}

\* What kubectl get pods -o json prints of one pod: status.phase,
\* status.conditions (may be absent) and the restartCount of each entry of
\* status.containerStatuses (may be absent).
Absent == [defined |-> FALSE, list |-> <<>>]
Given(list) == [defined |-> TRUE, list |-> list]

PodItems ==
    [phase : {"Running", "Succeeded", "Failed"},
     conditions : {Absent, Given(<<>>),
                   Given(<<[type |-> "Ready", status |-> "True"]>>),
                   Given(<<[type |-> "Ready", status |-> "False"]>>),
                   Given(<<[type |-> "PodScheduled", status |-> "True"]>>),
                   Given(<<[type |-> "PodScheduled", status |-> "True"],
                           [type |-> "Ready", status |-> "True"]>>)},
     restartCounts : {Absent, Given(<<3, 3>>)}]

\* Pods in one output of kubectl get pods.
MaxItems == 2

\* Outcomes of kubectl get pods: the command fails, or prints its items.
KubectlOutputs ==
    {[failed |-> TRUE, items |-> <<>>]}
    \cup {[failed |-> FALSE, items |-> its] :
             its \in UNION {[1..n -> PodItems] : n \in 0..MaxItems}}

RECURSIVE sum(_)
sum(counts) == IF counts = <<>> THEN 0 ELSE Head(counts) + sum(Tail(counts))

\* getPodStatuses: items.map(pod => ({ name, phase, ready, restarts }))
podStatus(pod) ==
    LET conditions == IF pod.conditions.defined THEN pod.conditions.list
                      ELSE <<>>
        containerStatuses == IF pod.restartCounts.defined
                             THEN pod.restartCounts.list ELSE <<>>
    IN [phase |-> pod.phase,
        ready |-> \E k \in 1..Len(conditions) :
                     /\ conditions[k].type = "Ready"
                     /\ conditions[k].status = "True",
        restarts |-> sum(containerStatuses)]

\* getPodStatuses(namespace), given what kubectl returned; [] on any error.
getPodStatuses(out) ==
    IF out.failed THEN <<>>
    ELSE [k \in 1..Len(out.items) |-> podStatus(out.items[k])]

\* Faulty variant: pods that have 'Succeeded' are not filtered out.
allPodsReadyCountsSucceeded(pods) ==
    IF Len(pods) = 0 THEN FALSE
    ELSE \A i \in 1..Len(pods) : pods[i].ready

IsRunning(p) == p.phase # "Succeeded"

\* kubectl.allPodsReady, on the pods getPodStatuses returned.
allPodsReady(pods) ==
    IF Len(pods) = 0 THEN FALSE
    ELSE LET runningPods == SelectSeq(pods, IsRunning) IN
         IF Len(runningPods) = 0 THEN FALSE
         ELSE \A i \in 1..Len(runningPods) : runningPods[i].ready

IsFailedPod(p) == p.phase = "Failed" \/ p.restarts > MaxRestarts

\* waitForPodsReady: pods.filter(p => p.phase === 'Failed' || p.restarts > 5)
failedPods(pods) == SelectSeq(pods, IsFailedPod)

\* A call of kubectl.allPodsReady(namespace), given what kubectl returned.
CallAllPodsReady(out) ==
    /\ up
    /\ LET pods == getPodStatuses(out) IN
       response' = [route |-> "kubectl.allPodsReady", id |-> 0, status |-> 0,
                    code |-> "none", out |-> out, pods |-> pods,
                    ready |-> allPodsReady(pods)]
    /\ UNCHANGED <<up, stores, audit, activeOperations, immediates, tasks,
                   recon, release, namespace, crashes>>

\* -------------------------------------------------------------- workflows
FreeTasks == TaskIds \ DOMAIN tasks
NewTask == CHOOSE t \in FreeTasks : \A u \in FreeTasks : t <= u

Frame(fn, id, pc, i, timer) ==
    [fn |-> fn, id |-> id, pc |-> pc, i |-> i, timer |-> timer]

\* The workflow's frame moves to its next await.
Goto(t, pc, i) == tasks' = [tasks EXCEPT ![t].pc = pc, ![t].i = i]

\* Faulty variant: the finally block forgets clearTimeout, so the frame's
\* timer outlives the workflow.
FinallyLeavesTimer(t) ==
    /\ tasks' = [tasks EXCEPT ![t].pc = "returned"]
    /\ activeOperations' = mapDelete(activeOperations, tasks[t].id)

\* Faulty variant: the finally block forgets activeOperations.delete.
FinallyKeepsLock(t) ==
    /\ tasks' = mapDelete(tasks, t)
    /\ activeOperations' = activeOperations

\* finally { clearTimeout(timeoutHandle); activeOperations.delete(storeId) }
Finally(t) ==
    /\ tasks' = mapDelete(tasks, t)
    /\ activeOperations' = mapDelete(activeOperations, tasks[t].id)

\* provisionStore: catch (error) { store.updateStatus(storeId, 'failed',
\* error.message) } finally { ... }
ProvisionCatch(t, message) ==
    /\ CanLog(1)
    /\ LET d == updateStatus(DB, tasks[t].id, "failed", message) IN
          /\ stores' = d.stores
          /\ audit' = d.audit
    /\ Finally(t)

\* Faulty variant: the lock is claimed without looking at it.
provisionStoreIgnoresLock(id) ==
    /\ CanLog(1)
    /\ FreeTasks # {}
    /\ id \in DOMAIN stores
    /\ activeOperations' = mapSet(activeOperations, id, "provisioning")
    /\ LET d == updateStatus(DB, id, "provisioning", NULL) IN
          /\ stores' = d.stores
          /\ audit' = d.audit
    /\ tasks' = mapSet(tasks, NewTask,
           Frame("provisionStore", id, "install.releaseExists", 0, "armed"))

\* provisionStore(storeId), from its call by setImmediate to its first await.
provisionStore(id) ==
    IF lockHeld(id)
    THEN UNCHANGED <<stores, audit, activeOperations, tasks>>
    ELSE IF id \notin DOMAIN stores \/ ~validate(stores[id].engine).valid
    THEN \* thrown before any await: catch and finally run in the same step
         /\ CanLog(1)
         /\ LET d == updateStatus(DB, id, "failed",
                        IF id \notin DOMAIN stores THEN MsgNotFoundProvision
                        ELSE validate(stores[id].engine).error) IN
               /\ stores' = d.stores
               /\ audit' = d.audit
         /\ UNCHANGED <<activeOperations, tasks>>
    ELSE /\ CanLog(1)
         /\ FreeTasks # {}
         /\ activeOperations' = mapSet(activeOperations, id, "provisioning")
         /\ LET d == updateStatus(DB, id, "provisioning", NULL) IN
               /\ stores' = d.stores
               /\ audit' = d.audit
         /\ tasks' = mapSet(tasks, NewTask,
                Frame("provisionStore", id, "install.releaseExists", 0,
                      "armed"))

\* The setImmediate callback of POST /stores and POST /stores/:id/retry.
RunProvisionStore ==
    /\ up
    /\ immediates # <<>>
    /\ Head(immediates).fn = "provisionStore"
    /\ provisionStore(Head(immediates).id)
    /\ immediates' = Tail(immediates)
    /\ response' = NoResponse
    /\ UNCHANGED <<up, recon, release, namespace, crashes>>

\* helm.install: releaseExists returned.
InstallReleaseExists(t) ==
    /\ up /\ t \in DOMAIN tasks
    /\ tasks[t].fn = "provisionStore" /\ tasks[t].pc = "install.releaseExists"
    /\ IF tasks[t].id \in release
       THEN Goto(t, "allPodsReady", 0)       \* { alreadyExists: true }
       ELSE Goto(t, "install.helmExec", 0)
    /\ response' = NoResponse
    /\ UNCHANGED <<up, stores, audit, activeOperations, immediates, recon,
                   release, namespace, crashes>>

\* helm.install: helm install --create-namespace returned.
InstallHelmExec(t) ==
    /\ up /\ t \in DOMAIN tasks
    /\ tasks[t].fn = "provisionStore" /\ tasks[t].pc = "install.helmExec"
    /\ LET id == tasks[t].id IN
       \E ok \in (IF id \in release THEN {FALSE} ELSE BOOLEAN),
          leftover \in BOOLEAN :
          IF ok
          THEN /\ leftover
               /\ release' = release \cup {id}
               /\ namespace' = namespace \cup {id}
               /\ Goto(t, "allPodsReady", 0)
               /\ UNCHANGED <<stores, audit, activeOperations>>
          ELSE \* helmExec throws 'Helm command failed: ...'; a failed
               \* install may leave the namespace and a failed release
               /\ release' = IF leftover THEN release \cup {id} ELSE release
               /\ namespace' = IF leftover THEN namespace \cup {id}
                               ELSE namespace
               /\ ProvisionCatch(t, MsgHelmFailed)
    /\ response' = NoResponse
    /\ UNCHANGED <<up, immediates, recon, crashes>>

\* waitForPodsReady: kubectl.allPodsReady returned, having listed pods.
PollAllPodsReadyWith(t, pods) ==
    /\ up /\ t \in DOMAIN tasks
    /\ tasks[t].fn = "provisionStore" /\ tasks[t].pc = "allPodsReady"
    /\ LET id == tasks[t].id IN
          IF allPodsReady(pods)
          THEN /\ CanLog(1)
               /\ LET urls == getUrls(stores[id].engine, id)
                      d == markReady(DB, id, urls.storeUrl, urls.adminUrl) IN
                     /\ stores' = d.stores
                     /\ audit' = d.audit
               /\ Finally(t)
          ELSE /\ Goto(t, "getPodStatuses", tasks[t].i)
               /\ UNCHANGED <<stores, audit, activeOperations>>
    /\ response' = NoResponse
    /\ UNCHANGED <<up, immediates, recon, release, namespace, crashes>>

PollAllPodsReady(t) ==
    /\ t \in DOMAIN tasks
    /\ \E pods \in PodSnapshots(stores[tasks[t].id].namespace) :
          PollAllPodsReadyWith(t, pods)

\* waitForPodsReady: kubectl.getPodStatuses returned.
PollGetPodStatusesWith(t, pods) ==
    /\ up /\ t \in DOMAIN tasks
    /\ tasks[t].fn = "provisionStore" /\ tasks[t].pc = "getPodStatuses"
    /\ IF Len(failedPods(pods)) > 0
       THEN Goto(t, "getEvents", tasks[t].i)
       ELSE Goto(t, "sleep", tasks[t].i)
    /\ response' = NoResponse
    /\ UNCHANGED <<up, stores, audit, activeOperations, immediates, recon,
                   release, namespace, crashes>>

PollGetPodStatuses(t) ==
    /\ t \in DOMAIN tasks
    /\ \E pods \in PodSnapshots(stores[tasks[t].id].namespace) :
          PollGetPodStatusesWith(t, pods)

\* waitForPodsReady: kubectl.getEvents returned; throw 'Pods failed: ...'.
PollGetEvents(t) ==
    /\ up /\ t \in DOMAIN tasks
    /\ tasks[t].fn = "provisionStore" /\ tasks[t].pc = "getEvents"
    /\ ProvisionCatch(t, MsgPodsFailed)
    /\ response' = NoResponse
    /\ UNCHANGED <<up, immediates, recon, release, namespace, crashes>>

\* Faulty variant: the loop runs while i <= maxAttempts.
PollSleepOneMore(t) ==
    /\ up /\ t \in DOMAIN tasks
    /\ immediates = <<>>
    /\ tasks[t].fn = "provisionStore" /\ tasks[t].pc = "sleep"
    /\ IF tasks[t].i + 1 <= MaxAttempts
       THEN /\ Goto(t, "allPodsReady", tasks[t].i + 1)
            /\ UNCHANGED <<stores, audit, activeOperations>>
       ELSE ProvisionCatch(t, MsgNotReady)
    /\ response' = NoResponse
    /\ UNCHANGED <<up, immediates, recon, release, namespace, crashes>>

\* waitForPodsReady: sleep(5000) returned; next attempt, or give up.
PollSleep(t) ==
    /\ up /\ t \in DOMAIN tasks
    /\ immediates = <<>>
    /\ tasks[t].fn = "provisionStore" /\ tasks[t].pc = "sleep"
    /\ IF tasks[t].i + 1 < MaxAttempts
       THEN /\ Goto(t, "allPodsReady", tasks[t].i + 1)
            /\ UNCHANGED <<stores, audit, activeOperations>>
       ELSE ProvisionCatch(t, MsgNotReady)
    /\ response' = NoResponse
    /\ UNCHANGED <<up, immediates, recon, release, namespace, crashes>>

\* Faulty variant: the deadline marks the store failed but keeps the lock entry.
handleTimeoutKeepsLock(t) ==
    /\ up /\ t \in DOMAIN tasks
    /\ immediates = <<>>
    /\ tasks[t].timer = "armed"
    /\ tasks' = [tasks EXCEPT ![t].timer = "fired"]
    /\ IF lockHeld(tasks[t].id)
       THEN /\ CanLog(1)
            /\ LET d == updateStatus(DB, tasks[t].id, "failed", MsgTimeout) IN
                  /\ stores' = d.stores
                  /\ audit' = d.audit
            /\ UNCHANGED activeOperations
       ELSE UNCHANGED <<stores, audit, activeOperations>>
    /\ response' = NoResponse
    /\ UNCHANGED <<up, immediates, recon, release, namespace, crashes>>

\* Faulty variant: the deadline removes the lock entry and leaves the status.
handleTimeoutOnlyUnlocks(t) ==
    /\ up /\ t \in DOMAIN tasks
    /\ immediates = <<>>
    /\ tasks[t].timer = "armed"
    /\ tasks' = [tasks EXCEPT ![t].timer = "fired"]
    /\ IF lockHeld(tasks[t].id)
       THEN /\ activeOperations' = mapDelete(activeOperations, tasks[t].id)
            /\ UNCHANGED <<stores, audit>>
       ELSE UNCHANGED <<stores, audit, activeOperations>>
    /\ response' = NoResponse
    /\ UNCHANGED <<up, immediates, recon, release, namespace, crashes>>

\* The setTimeout callback of provisionStore: handleTimeout(storeId).
handleTimeout(t) ==
    /\ up /\ t \in DOMAIN tasks
    /\ immediates = <<>>
    /\ tasks[t].timer = "armed"
    /\ tasks' = [tasks EXCEPT ![t].timer = "fired"]
    /\ IF lockHeld(tasks[t].id)
       THEN /\ CanLog(1)
            /\ LET d == updateStatus(DB, tasks[t].id, "failed", MsgTimeout) IN
                  /\ stores' = d.stores
                  /\ audit' = d.audit
            /\ activeOperations' = mapDelete(activeOperations, tasks[t].id)
       ELSE UNCHANGED <<stores, audit, activeOperations>>
    /\ response' = NoResponse
    /\ UNCHANGED <<up, immediates, recon, release, namespace, crashes>>

\* deleteStore: store.markDeleted(storeId), then finally.
DeleteComplete(t) ==
    /\ CanLog(1)
    /\ LET d == markDeleted(DB, tasks[t].id) IN
          /\ stores' = d.stores
          /\ audit' = d.audit
    /\ Finally(t)

\* Faulty variant: the lock is tested inside the try, so the error of a
\* concurrent claim runs the catch and the finally.
deleteStoreChecksLockInsideTry(id) ==
    IF lockHeld(id)
    THEN /\ CanLog(1)
         /\ LET d == updateStatus(DB, id, "failed", MsgDeleteNotFound) IN
               /\ stores' = d.stores
               /\ audit' = d.audit
         /\ activeOperations' = mapDelete(activeOperations, id)
         /\ UNCHANGED tasks
    ELSE /\ CanLog(1)
         /\ FreeTasks # {}
         /\ id \in DOMAIN stores
         /\ activeOperations' = mapSet(activeOperations, id, "deleting")
         /\ LET d == updateStatus(DB, id, "deleting", NULL) IN
               /\ stores' = d.stores
               /\ audit' = d.audit
         /\ tasks' = mapSet(tasks, NewTask,
                Frame("deleteStore", id, "uninstall.releaseExists", 0, "none"))

\* deleteStore(storeId), from its call by setImmediate to its first await.
deleteStore(id) ==
    IF lockHeld(id)
    THEN \* throws before the try: the rejection is only logged
         UNCHANGED <<stores, audit, activeOperations, tasks>>
    ELSE IF id \notin DOMAIN stores
    THEN /\ CanLog(1)
         /\ LET d == updateStatus(DB, id, "failed", MsgDeleteNotFound) IN
               /\ stores' = d.stores
               /\ audit' = d.audit
         /\ UNCHANGED <<activeOperations, tasks>>
    ELSE /\ CanLog(1)
         /\ FreeTasks # {}
         /\ activeOperations' = mapSet(activeOperations, id, "deleting")
         /\ LET d == updateStatus(DB, id, "deleting", NULL) IN
               /\ stores' = d.stores
               /\ audit' = d.audit
         /\ tasks' = mapSet(tasks, NewTask,
                Frame("deleteStore", id, "uninstall.releaseExists", 0, "none"))

\* The setImmediate callback of DELETE /stores/:id.
RunDeleteStore ==
    /\ up
    /\ immediates # <<>>
    /\ Head(immediates).fn = "deleteStore"
    /\ deleteStore(Head(immediates).id)
    /\ immediates' = Tail(immediates)
    /\ response' = NoResponse
    /\ UNCHANGED <<up, recon, release, namespace, crashes>>

\* helm.uninstall: releaseExists returned.
UninstallReleaseExists(t) ==
    /\ up /\ t \in DOMAIN tasks
    /\ tasks[t].fn = "deleteStore" /\ tasks[t].pc = "uninstall.releaseExists"
    /\ IF tasks[t].id \in release
       THEN Goto(t, "uninstall.helmExec", 0)
       ELSE Goto(t, "deleteNamespace.namespaceExists", 0)
    /\ response' = NoResponse
    /\ UNCHANGED <<up, stores, audit, activeOperations, immediates, recon,
                   release, namespace, crashes>>

\* Faulty variant: a failed uninstall aborts the delete workflow.
UninstallHelmExecAborts(t) ==
    /\ up /\ t \in DOMAIN tasks
    /\ tasks[t].fn = "deleteStore" /\ tasks[t].pc = "uninstall.helmExec"
    /\ \E ok \in (IF tasks[t].id \in release THEN BOOLEAN ELSE {FALSE}) :
          /\ release' = IF ok THEN release \ {tasks[t].id} ELSE release
          /\ IF ok
             THEN /\ Goto(t, "deleteNamespace.namespaceExists", 0)
                  /\ UNCHANGED <<stores, audit, activeOperations>>
             ELSE ProvisionCatch(t, MsgHelmFailed)
    /\ response' = NoResponse
    /\ UNCHANGED <<up, immediates, recon, namespace, crashes>>

\* helm.uninstall: helm uninstall --wait returned; a failure is only warned.
UninstallHelmExec(t) ==
    /\ up /\ t \in DOMAIN tasks
    /\ tasks[t].fn = "deleteStore" /\ tasks[t].pc = "uninstall.helmExec"
    /\ \E ok \in (IF tasks[t].id \in release THEN BOOLEAN ELSE {FALSE}) :
          release' = IF ok THEN release \ {tasks[t].id} ELSE release
    /\ Goto(t, "deleteNamespace.namespaceExists", 0)
    /\ response' = NoResponse
    /\ UNCHANGED <<up, stores, audit, activeOperations, immediates, recon,
                   namespace, crashes>>

\* kubectl.deleteNamespace: namespaceExists returned.
DeleteNamespaceExists(t) ==
    /\ up /\ t \in DOMAIN tasks
    /\ tasks[t].fn = "deleteStore"
    /\ tasks[t].pc = "deleteNamespace.namespaceExists"
    /\ IF tasks[t].id \in namespace
       THEN /\ Goto(t, "deleteNamespace.kubectlExec", 0)
            /\ UNCHANGED <<stores, audit, activeOperations>>
       ELSE DeleteComplete(t)
    /\ response' = NoResponse
    /\ UNCHANGED <<up, immediates, recon, release, namespace, crashes>>

\* kubectl.deleteNamespace: kubectl delete namespace --wait=true returned; a
\* failure is only warned.  The release's records live in the namespace.
DeleteNamespaceExec(t) ==
    /\ up /\ t \in DOMAIN tasks
    /\ tasks[t].fn = "deleteStore"
    /\ tasks[t].pc = "deleteNamespace.kubectlExec"
    /\ \E ok \in (IF tasks[t].id \in namespace THEN BOOLEAN ELSE {FALSE}) :
          /\ namespace' = IF ok THEN namespace \ {tasks[t].id} ELSE namespace
          /\ release' = IF ok THEN release \ {tasks[t].id} ELSE release
    /\ DeleteComplete(t)
    /\ response' = NoResponse
    /\ UNCHANGED <<up, immediates, recon, crashes>>

\* ---------------------------------------------------- crash and recovery
\* The process dies: everything in memory is lost, the tables and the
\* cluster stay.
Crash ==
    /\ up
    /\ crashes < MaxCrashes
    /\ up' = FALSE
    /\ crashes' = crashes + 1
    /\ activeOperations' = <<>>
    /\ immediates' = <<>>
    /\ tasks' = <<>>
    /\ recon' = <<>>
    /\ response' = NoResponse
    /\ UNCHANGED <<stores, audit, release, namespace>>

\* store.getAll(): SELECT * FROM stores ORDER BY created_at DESC, as ids.
RECURSIVE getAllFrom(_, _)
getAllFrom(st, n) ==
    IF n = 0 THEN <<>>
    ELSE IF n \in DOMAIN st THEN <<n>> \o getAllFrom(st, n - 1)
    ELSE getAllFrom(st, n - 1)

getAll(st) == getAllFrom(st, NumIds)

\* Faulty variant: queued stores are not seen as stuck.
IsStuckOnlyProvisioning(id) == stores[id].status = "provisioning"

\* Faulty variant: stores left in 'deleting' are taken as stuck too.
IsStuckOrDeleting(id) ==
    stores[id].status \in {"provisioning", "queued", "deleting"}

\* stuckStores: s.status === 'provisioning' || s.status === 'queued'
IsStuck(id) == stores[id].status \in {"provisioning", "queued"}

\* The process starts; app.listen's callback calls recoverOnStartup, which
\* lists the stuck stores and awaits the first cluster query.
recoverOnStartup ==
    /\ ~up
    /\ up' = TRUE
    /\ recon' = SelectSeq(getAll(stores), IsStuck)
    /\ response' = NoResponse
    /\ UNCHANGED <<stores, audit, activeOperations, immediates, tasks,
                   release, namespace, crashes>>

\* recoverOnStartup's loop body for the next stuck store, kubectl.allPodsReady
\* having seen these pods.
RecoverWith(pods) ==
    /\ up
    /\ recon # <<>>
    /\ CanLog(2)
    /\ LET id == Head(recon)
           urls == getUrls(stores[id].engine, id)
           d == IF allPodsReady(pods)
                THEN markReady(DB, id, urls.storeUrl, urls.adminUrl)
                ELSE updateStatus(DB, id, "failed", MsgRestarted) IN
          /\ stores' = d.stores
          /\ audit' = auditLog(d.audit, id, "recovery",
                 IF allPodsReady(pods)
                 THEN [result |-> "marked_ready",
                       reason |-> "pods ready after restart"]
                 ELSE [result |-> "marked_failed",
                       reason |-> "API restart interrupted provisioning"])
    /\ recon' = Tail(recon)
    /\ response' = NoResponse
    /\ UNCHANGED <<up, activeOperations, immediates, tasks, release,
                   namespace, crashes>>

\* recoverOnStartup: kubectl.allPodsReady(stuckStore.namespace) returned for
\* the next stuck store.
RecoverStep ==
    /\ recon # <<>>
    /\ \E pods \in PodSnapshots(stores[Head(recon)].namespace) :
          RecoverWith(pods)

\* ---------------------------------------------------------- specification
Init ==
    /\ up = TRUE
    /\ stores = <<>>
    /\ audit = <<>>
    /\ activeOperations = <<>>
    /\ immediates = <<>>
    /\ tasks = <<>>
    /\ recon = <<>>
    /\ release = {}
    /\ namespace = {}
    /\ crashes = 0
    /\ response = NoResponse

\* Request bodies of the clients of this specification: a name to be
\* trimmed, the engine left to its default or named.
ClientNames == {[type |-> "string", chars |-> <<" ", "a", "b", " ">>]}
ClientEngines == {UNDEFINED, "woocommerce"}

Requests ==
    \/ \E name \in ClientNames, engineIn \in ClientEngines :
          PostStores(name, engineIn)
    \/ \E id \in StoreIds : DeleteStoresId(id)
    \/ \E id \in StoreIds : PostStoresIdRetry(id)

ProvisionSteps ==
    \/ RunProvisionStore
    \/ \E t \in TaskIds : InstallReleaseExists(t)
    \/ \E t \in TaskIds : InstallHelmExec(t)
    \/ \E t \in TaskIds : PollAllPodsReady(t)
    \/ \E t \in TaskIds : PollGetPodStatuses(t)
    \/ \E t \in TaskIds : PollGetEvents(t)
    \/ \E t \in TaskIds : PollSleep(t)
    \/ \E t \in TaskIds : handleTimeout(t)

DeleteSteps ==
    \/ RunDeleteStore
    \/ \E t \in TaskIds : UninstallReleaseExists(t)
    \/ \E t \in TaskIds : UninstallHelmExec(t)
    \/ \E t \in TaskIds : DeleteNamespaceExists(t)
    \/ \E t \in TaskIds : DeleteNamespaceExec(t)

Workflows == ProvisionSteps \/ DeleteSteps

Recovery ==
    \/ Crash
    \/ recoverOnStartup
    \/ RecoverStep

Next == Requests \/ Workflows \/ Recovery

Spec == Init /\ [][Next]_vars

\* The same program in runs where the process never crashes.
NextNoCrash == Requests \/ Workflows

SpecNoCrash == Init /\ [][NextNoCrash]_vars

\* Create requests with every kind of body, by themselves: clients that
\* only create stores, whose provisioning runs in the background.
CreateRequests ==
    \E name \in NameInputs, engineIn \in EngineInputs :
       PostStores(name, engineIn)

NextCreate == CreateRequests \/ ProvisionSteps

SpecCreate == Init /\ [][NextCreate]_vars

\* Clients that create stores and read the audit log.
AuditRequests == \E q \in LimitInputs : GetAudit(q)

NextAudit == CreateRequests \/ ProvisionSteps \/ AuditRequests

SpecAudit == Init /\ [][NextAudit]_vars

\* Clients that create stores and send requests that fail.
FailingRequests ==
    \E err \in ErrorInputs, nodeEnv \in NodeEnvs : FailRequest(err, nodeEnv)

NextErrors == CreateRequests \/ ProvisionSteps \/ FailingRequests

SpecErrors == Init /\ [][NextErrors]_vars

\* Clients that create stores while the audit table can refuse an INSERT.
AuditFaults ==
    \E name \in ClientNames, engineIn \in ClientEngines, nodeEnv \in NodeEnvs :
       PostStoresAuditFails(name, engineIn, nodeEnv)

NextAuditFault == Requests \/ Workflows \/ AuditFaults

SpecAuditFault == Init /\ [][NextAuditFault]_vars

\* Audit entries the workflows in progress and the calls still queued can
\* append before they finish: one at the claim, one by the deadline, one at
\* the end.
RECURSIVE TasksNeed(_)
TasksNeed(ts) ==
    IF ts = {} THEN 0
    ELSE LET t == CHOOSE u \in ts : TRUE IN
         (IF tasks[t].timer = "armed" THEN 2 ELSE 1) + TasksNeed(ts \ {t})

RECURSIVE CallsNeed(_)
CallsNeed(q) ==
    IF q = <<>> THEN 0
    ELSE (IF Head(q).fn = "provisionStore" THEN 3 ELSE 2) + CallsNeed(Tail(q))

\* A client that sends a request only while the tables of this model have
\* room for all the work accepted so far and for n more audit entries.
Paced(n) ==
    /\ Len(audit) + TasksNeed(DOMAIN tasks) + CallsNeed(immediates) + n
          <= MaxAudit
    /\ Cardinality(DOMAIN tasks) + Len(immediates) < MaxTasks

PacedRequests ==
    \/ \E name \in ClientNames, engineIn \in ClientEngines :
          Paced(4) /\ PostStores(name, engineIn)
    \/ \E id \in StoreIds : Paced(2) /\ DeleteStoresId(id)
    \/ \E id \in StoreIds : Paced(4) /\ PostStoresIdRetry(id)

\* The continuation of workflow t after the await it is suspended at.
Continue(t) ==
    \/ InstallReleaseExists(t)
    \/ InstallHelmExec(t)
    \/ PollAllPodsReady(t)
    \/ PollGetPodStatuses(t)
    \/ PollGetEvents(t)
    \/ PollSleep(t)
    \/ UninstallReleaseExists(t)
    \/ UninstallHelmExec(t)
    \/ DeleteNamespaceExists(t)
    \/ DeleteNamespaceExec(t)

RunCallback == RunProvisionStore \/ RunDeleteStore

NextFair ==
    \/ PacedRequests
    \/ RunCallback
    \/ \E t \in TaskIds : Continue(t)
    \/ \E t \in TaskIds : handleTimeout(t)

\* The event loop runs the last callback of its setImmediate queue.
DrainCallbacks == RunCallback /\ immediates' = <<>>

\* A process that does not crash, in which every external call and every
\* sleep returns and the event loop runs every queued callback. Each turn
\* of the loop runs the whole setImmediate queue, so the queue is empty
\* again and again however many requests arrive; a sleep that is over is
\* resumed in the timers phase of the turn that follows.
SpecFair ==
    /\ Init /\ [][NextFair]_vars
    /\ WF_vars(RunCallback)
    /\ SF_vars(DrainCallbacks)
    /\ \A t \in TaskIds : SF_vars(Continue(t))

\* The cluster inspector by itself, called on every output of kubectl.
NextInspector == \E out \in KubectlOutputs : CallAllPodsReady(out)

SpecInspector == Init /\ [][NextInspector]_vars

\* ------------------------------------------------------------------ claims
\* Workflows of one store that have claimed the lock and not yet run their
\* finally block.
Executing(id) == {t \in DOMAIN tasks : tasks[t].id = id}

\* C1: at most one lifecycle workflow (provisionStore or deleteStore, from
\* its claim of the lock to the end of its finally block) is executing for a
\* store id.
C1_MutualExclusion == \A id \in StoreIds : Cardinality(Executing(id)) <= 1

\* C2: once a store's status is 'deleted', no step changes its status, URLs
\* or error_message.
C2_DeletedIsTerminal ==
    [][\A id \in DOMAIN stores :
          stores[id].status = "deleted" =>
             /\ stores'[id].status = "deleted"
             /\ stores'[id].store_url = stores[id].store_url
             /\ stores'[id].admin_url = stores[id].admin_url
             /\ stores'[id].error_message = stores[id].error_message]_vars

LifecycleTable ==
    {<<"queued", "provisioning">>, <<"provisioning", "ready">>,
     <<"provisioning", "failed">>, <<"failed", "provisioning">>,
     <<"ready", "deleting">>, <<"failed", "deleting">>,
     <<"queued", "deleting">>, <<"provisioning", "deleting">>,
     <<"deleting", "deleted">>}

\* C3: every change of a store's status is a row of the lifecycle table, and
\* a new store starts 'queued'.
C3_LifecycleTable ==
    [][\A id \in DOMAIN stores' :
          IF id \notin DOMAIN stores
          THEN stores'[id].status = "queued"
          ELSE \/ stores'[id].status = stores[id].status
               \/ <<stores[id].status, stores'[id].status>> \in LifecycleTable
      ]_vars

\* C4: a store whose status is 'failed' has a non-null, non-empty
\* error_message.
C4_FailedHasMessage ==
    \A id \in DOMAIN stores :
       stores[id].status = "failed" =>
          stores[id].error_message # NULL /\ stores[id].error_message # ""

\* C4 witness: stores have failed by the deadline and by a thrown error.
C4_Witness ==
    /\ \E id \in DOMAIN stores :
          stores[id].status = "failed" /\ stores[id].error_message = MsgTimeout
    /\ \E id \in DOMAIN stores :
          stores[id].status = "failed"
             /\ stores[id].error_message = MsgHelmFailed

\* C5: a store whose status is 'ready' has non-null store_url and admin_url.
C5_ReadyHasUrls ==
    \A id \in DOMAIN stores :
       stores[id].status = "ready" =>
          stores[id].store_url # NULL /\ stores[id].admin_url # NULL

\* C5 witness: a store has been marked ready by its provision workflow.
C5_Witness ==
    \E id \in DOMAIN stores :
       /\ stores[id].status = "ready"
       /\ audit[Len(audit)].action = "status_change"
       /\ audit[Len(audit)].store_id = id

\* Stores whose status is neither 'deleted' nor 'failed'.
NotDeletedNorFailed(st) ==
    {id \in DOMAIN st : ~(st[id].status = "deleted" \/ st[id].status = "failed")}

\* C6: a POST /stores with a valid name and an available engine is accepted
\* (201, one new record, 'queued') iff fewer than max_stores stores are
\* neither deleted nor failed; otherwise it is answered 429 QUOTA_EXCEEDED
\* and neither table changes.
C6_QuotaAtCreation ==
    [][\A name \in ClientNames, engineIn \in ClientEngines :
          (/\ validateCreateStore(name, engineIn).ok
           /\ validateCreateStore(name, engineIn).engine = "woocommerce"
           /\ PostStores(name, engineIn))
          => IF Cardinality(NotDeletedNorFailed(stores)) < MaxStores
             THEN /\ response'.status = 201
                  /\ \E id \in StoreIds \ DOMAIN stores :
                        /\ DOMAIN stores' = DOMAIN stores \cup {id}
                        /\ stores'[id].status = "queued"
                        /\ response'.id = id
                  /\ Len(audit') = Len(audit) + 1
             ELSE /\ response'.status = 429
                  /\ response'.code = "QUOTA_EXCEEDED"
                  /\ stores' = stores
                  /\ audit' = audit]_vars

\* C6 witness: a create was refused for quota while an earlier store,
\* failed, did not count.
C6_Witness ==
    /\ response.route = "POST /stores"
    /\ response.code = "QUOTA_EXCEEDED"
    /\ \E id \in DOMAIN stores : stores[id].status = "failed"
    /\ \E id \in DOMAIN stores : stores[id].status \in {"queued", "ready"}

CountWithStatus(st, status) ==
    Cardinality({id \in DOMAIN st : st[id].status = status})

\* C7: getActiveCount() is the number of queued, provisioning, ready and
\* deleting stores: every store but the deleted and the failed ones.
C7_ActiveCount ==
    /\ getActiveCount(stores) =
          CountWithStatus(stores, "queued")
          + CountWithStatus(stores, "provisioning")
          + CountWithStatus(stores, "ready")
          + CountWithStatus(stores, "deleting")
    /\ getActiveCount(stores) =
          Cardinality(DOMAIN stores) - CountWithStatus(stores, "deleted")
          - CountWithStatus(stores, "failed")

\* C7 witness: after create, updateStatus, markReady and markDeleted, one
\* store counts and one does not.
C7_Witness ==
    /\ getActiveCount(stores) = 1
    /\ \E id \in DOMAIN stores : stores[id].status = "deleted"
    /\ \E id \in DOMAIN stores : stores[id].status = "ready"

\* C8: a retry request schedules provisionStore (202, audit 'retry') exactly
\* when the store is 'failed' and the lock has no entry for it; otherwise it
\* is answered 409, INVALID_STATE_TRANSITION for another status and
\* OPERATION_IN_PROGRESS for 'failed' under the lock, and the record, the
\* lock, the audit log and the callback queue are unchanged.
C8_RetryGuard ==
    [][\A id \in DOMAIN stores :
          (response'.route = "POST /stores/:id/retry" /\ response'.id = id)
          => /\ stores' = stores
             /\ activeOperations' = activeOperations
             /\ tasks' = tasks
             /\ IF stores[id].status = "failed"
                   /\ id \notin DOMAIN activeOperations
                THEN /\ response'.status = 202
                     /\ immediates' =
                           Append(immediates,
                                  [fn |-> "provisionStore", id |-> id])
                     /\ Len(audit') = Len(audit) + 1
                     /\ audit'[Len(audit')].action = "retry"
                ELSE /\ response'.status = 409
                     /\ response'.code =
                           IF stores[id].status = "failed"
                           THEN "OPERATION_IN_PROGRESS"
                           ELSE "INVALID_STATE_TRANSITION"
                     /\ audit' = audit
                     /\ immediates' = immediates]_vars

\* C8 witness: a retry of a failed store was refused because the lock was
\* held.
C8_Witness ==
    /\ response.route = "POST /stores/:id/retry"
    /\ response.code = "OPERATION_IN_PROGRESS"
    /\ stores[response.id].status = "failed"
    /\ response.id \in DOMAIN activeOperations

\* C9: a delete request schedules deleteStore (202) exactly when the status
\* is ready, failed, queued or provisioning; on 'deleted' it is answered 409
\* INVALID_STATE_TRANSITION and on 'deleting' 409 OPERATION_IN_PROGRESS; it
\* never changes the record, the lock or the audit log.
C9_DeleteGuard ==
    [][\A id \in DOMAIN stores :
          (response'.route = "DELETE /stores/:id" /\ response'.id = id)
          => /\ stores' = stores
             /\ activeOperations' = activeOperations
             /\ audit' = audit
             /\ tasks' = tasks
             /\ IF stores[id].status
                      \in {"ready", "failed", "queued", "provisioning"}
                THEN /\ response'.status = 202
                     /\ immediates' =
                           Append(immediates,
                                  [fn |-> "deleteStore", id |-> id])
                ELSE /\ response'.status = 409
                     /\ response'.code =
                           IF stores[id].status = "deleted"
                           THEN "INVALID_STATE_TRANSITION"
                           ELSE "OPERATION_IN_PROGRESS"
                     /\ stores[id].status \in {"deleted", "deleting"}
                     /\ immediates' = immediates]_vars

\* C9 witness: a delete of a store being deleted was refused.
C9_Witness ==
    /\ response.route = "DELETE /stores/:id"
    /\ response.code = "OPERATION_IN_PROGRESS"
    /\ stores[response.id].status = "deleting"

\* The deadline of workflow t fires in this step.
Fires(t) ==
    /\ t \in DOMAIN tasks /\ tasks[t].timer = "armed"
    /\ t \in DOMAIN tasks' /\ tasks'[t].timer = "fired"

\* C10: when a provision deadline fires while the lock has an entry for the
\* store, the store becomes 'failed' with error_message "Provisioning timed
\* out" and the entry is removed in the same step; when it fires with no
\* entry, nothing changes.
C10_DeadlineEffect ==
    [][\A t \in TaskIds :
          Fires(t) =>
             LET id == tasks[t].id IN
             IF id \in DOMAIN activeOperations
             THEN /\ stores'[id].status = "failed"
                  /\ stores'[id].error_message = "Provisioning timed out"
                  /\ id \notin DOMAIN activeOperations'
             ELSE /\ stores' = stores
                  /\ audit' = audit
                  /\ activeOperations' = activeOperations]_vars

\* C10 witness: a deadline has fired under the lock; its workflow is still
\* suspended at an await.
C10_Witness ==
    \E t \in DOMAIN tasks :
       /\ tasks[t].timer = "fired"
       /\ stores[tasks[t].id].status = "failed"
       /\ stores[tasks[t].id].error_message = MsgTimeout
       /\ tasks[t].id \notin DOMAIN activeOperations

\* The step runs the queued deleteStore(id) callback in a live process.
RunsDeleteOf(id) ==
    /\ up /\ up'
    /\ immediates # <<>>
    /\ Head(immediates) = [fn |-> "deleteStore", id |-> id]
    /\ immediates' = Tail(immediates)

\* C11: the deleteStore call scheduled by an accepted delete of a store that
\* is being provisioned is not lost: when the call runs, the store becomes
\* 'deleting' and a delete workflow starts for it.
C11_AcceptedDeleteNotLost ==
    [][\A id \in DOMAIN stores :
          (RunsDeleteOf(id) /\ stores[id].status = "provisioning")
          => /\ stores'[id].status = "deleting"
             /\ \E t \in DOMAIN tasks' \ DOMAIN tasks :
                   tasks'[t].fn = "deleteStore" /\ tasks'[t].id = id]_vars

\* The audit log has a status_change of store id to the given status.
LoggedStatus(id, status) ==
    \E k \in 1..Len(audit) :
       /\ audit[k].store_id = id
       /\ audit[k].action = "status_change"
       /\ audit[k].details.status = status

\* The step ends the delete workflow t (its finally block runs).
EndsDelete(t) ==
    /\ up'
    /\ t \in DOMAIN tasks /\ tasks[t].fn = "deleteStore"
    /\ t \notin DOMAIN tasks'

\* C12: a failed chart uninstall does not stop the delete workflow: it goes
\* on to the namespace deletion, and every delete workflow that ends leaves
\* the store 'deleted', with a 'delete' audit entry last in the log and no
\* lock entry.
C12_BeltAndSuspenders ==
    [][\A t \in DOMAIN tasks :
          /\ (/\ up' /\ tasks[t].fn = "deleteStore"
              /\ tasks[t].pc = "uninstall.helmExec"
              /\ (t \notin DOMAIN tasks' \/ tasks'[t] # tasks[t]))
             => /\ t \in DOMAIN tasks'
                /\ tasks'[t].pc = "deleteNamespace.namespaceExists"
          /\ EndsDelete(t)
             => /\ stores'[tasks[t].id].status = "deleted"
                /\ Len(audit') = Len(audit) + 1
                /\ audit'[Len(audit')].action = "delete"
                /\ audit'[Len(audit')].store_id = tasks[t].id
                /\ tasks[t].id \notin DOMAIN activeOperations']_vars

\* C12 witness: a store never touched by a deadline is 'deleted' with the
\* lock released and a 'delete' entry last in the log, while its release is
\* still in the cluster: the uninstall failed.
C12_Witness ==
    \E id \in DOMAIN stores :
       /\ stores[id].status = "deleted"
       /\ id \in release
       /\ ~LoggedStatus(id, "failed")
       /\ id \notin DOMAIN activeOperations
       /\ audit[Len(audit)].action = "delete"
       /\ audit[Len(audit)].store_id = id

\* C13: a step of a delete workflow that sets a store 'deleted' leaves no
\* namespace of that store in the cluster.
C13_CleanupGuarantee ==
    [][\A t \in DOMAIN tasks :
          (EndsDelete(t) /\ stores'[tasks[t].id].status = "deleted")
          => tasks[t].id \notin namespace']_vars

\* C14: the reconciler lists exactly the stores that are 'provisioning' or
\* 'queued' at startup, and for each listed store it writes 'ready' with the
\* engine's URLs and a 'recovery' entry marked_ready when all pods are
\* ready, else 'failed' with the restart message and a 'recovery' entry
\* marked_failed.
C14_ReconcilerOutcome ==
    [][/\ (~up /\ up')
          => \A id \in DOMAIN stores :
                (\E k \in 1..Len(recon') : recon'[k] = id)
                <=> stores[id].status \in {"provisioning", "queued"}
       /\ \A pods \in UNION {PodSnapshots(ns) : ns \in StoreIds} :
             (recon # <<>> /\ RecoverWith(pods))
             => LET id == Head(recon)
                    last == audit'[Len(audit')] IN
                /\ Len(audit') = Len(audit) + 2
                /\ last.store_id = id /\ last.action = "recovery"
                /\ IF allPodsReady(pods)
                   THEN /\ stores'[id].status = "ready"
                        /\ stores'[id].store_url
                              = getUrls(stores[id].engine, id).storeUrl
                        /\ stores'[id].admin_url
                              = getUrls(stores[id].engine, id).adminUrl
                        /\ last.details.result = "marked_ready"
                   ELSE /\ stores'[id].status = "failed"
                        /\ stores'[id].error_message =
                              "API restarted during provisioning. Click retry to re-attempt."
                        /\ last.details.result = "marked_failed"]_vars

\* C14 witness: after a restart the reconciler found the pods of a stuck
\* store ready and marked it ready.
C14_Witness ==
    /\ crashes > 0
    /\ audit # <<>>
    /\ audit[Len(audit)].action = "recovery"
    /\ audit[Len(audit)].details.result = "marked_ready"
    /\ stores[audit[Len(audit)].store_id].status = "ready"

\* Something in the process will act on store id: a workflow is executing
\* for it, or a provisionStore/deleteStore call for it is queued.
Driven(id) ==
    \/ Executing(id) # {}
    \/ \E k \in 1..Len(immediates) : immediates[k].id = id

\* C15: once the process has crashed, restarted and finished its reconciler
\* run, every store that is 'queued', 'provisioning' or 'deleting' has a
\* workflow at work on it, and every other store is either 'deleted' or in a
\* status from which a delete or retry request is accepted.
C15_CrashConvergence ==
    (up /\ crashes > 0 /\ recon = <<>>)
    => \A id \in DOMAIN stores :
          IF stores[id].status \in {"queued", "provisioning", "deleting"}
          THEN Driven(id)
          ELSE \/ stores[id].status = "deleted"
               \/ stores[id].status \in DELETABLE_STATES
               \/ stores[id].status \in RETRYABLE_STATES

\* C16: no chart install command runs for a store whose release exists, and
\* a provision workflow that finds the release in place runs no install and
\* goes on to poll for readiness.
C16_InstallIdempotence ==
    [][/\ \A t \in DOMAIN tasks' :
             tasks'[t].pc = "install.helmExec" => tasks'[t].id \notin release'
       /\ \A t \in DOMAIN tasks \cap DOMAIN tasks' :
             (/\ tasks[t].pc = "install.releaseExists"
              /\ tasks'[t].pc # tasks[t].pc
              /\ tasks[t].id \in release)
             => tasks'[t].pc = "allPodsReady"]_vars

\* The step runs the queued provisionStore(id) callback in a live process.
RunsProvisionOf(id) ==
    /\ up /\ up'
    /\ immediates # <<>>
    /\ Head(immediates) = [fn |-> "provisionStore", id |-> id]
    /\ immediates' = Tail(immediates)

\* The step ends the provision workflow t, which awaited at pc.
EndsProvisionAt(t, pc) ==
    /\ up'
    /\ t \in DOMAIN tasks /\ tasks[t].fn = "provisionStore"
    /\ tasks[t].pc = pc
    /\ t \notin DOMAIN tasks'

\* A chart install that throws ends its workflow with the store 'failed'
\* under the install error message.
InstallFailureIsRecorded ==
    \A t \in DOMAIN tasks :
       EndsProvisionAt(t, "install.helmExec")
       => /\ stores'[tasks[t].id].status = "failed"
          /\ stores'[tasks[t].id].error_message = MsgHelmFailed

\* No automatic retry: a provisionStore call for an existing store is
\* scheduled only by an accepted retry request, which logs 'retry', and a
\* provision workflow is started only by such a scheduled call.
NoAutoRetry ==
    /\ \A id \in DOMAIN stores :
          (/\ up'
           /\ Len(immediates') = Len(immediates) + 1
           /\ immediates'[Len(immediates')]
                 = [fn |-> "provisionStore", id |-> id])
          => /\ response' = Reply("POST /stores/:id/retry", id, 202, "OK")
             /\ stores[id].status = "failed"
             /\ Len(audit') = Len(audit) + 1
             /\ audit'[Len(audit')].action = "retry"
             /\ audit'[Len(audit')].store_id = id
    /\ \A t \in DOMAIN tasks' \ DOMAIN tasks :
          tasks'[t].fn = "provisionStore" => RunsProvisionOf(tasks'[t].id)

\* A provision workflow that finds all pods ready ends with the store
\* 'ready'.
ReadyOnSuccess ==
    \A t \in DOMAIN tasks :
       EndsProvisionAt(t, "allPodsReady")
       => stores'[tasks[t].id].status = "ready"

\* C17 as stated: an install failure is recorded, nothing retries by itself,
\* every scheduled provisionStore call moves its store to 'provisioning',
\* and success ends in 'ready'.
C17_InstallFailureAndRetry ==
    [][/\ InstallFailureIsRecorded
       /\ NoAutoRetry
       /\ \A id \in DOMAIN stores :
             RunsProvisionOf(id) => stores'[id].status = "provisioning"
       /\ ReadyOnSuccess]_vars

\* C17 amended: as above, but a scheduled provisionStore call moves its
\* store to 'provisioning' only if no operation holds the lock for the store
\* when the call runs; otherwise it returns without changing anything.
C17_RetryUnlessLocked ==
    [][/\ InstallFailureIsRecorded
       /\ NoAutoRetry
       /\ \A id \in DOMAIN stores :
             RunsProvisionOf(id)
             => IF id \in DOMAIN activeOperations
                THEN /\ stores' = stores /\ audit' = audit
                     /\ tasks' = tasks
                     /\ activeOperations' = activeOperations
                ELSE /\ stores'[id].status = "provisioning"
                     /\ id \in DOMAIN activeOperations'
       /\ ReadyOnSuccess]_vars

\* C17 witness: a store whose install failed was retried and is 'ready',
\* no deadline having fired for it.
C17_Witness ==
    \E id \in DOMAIN stores :
       /\ stores[id].status = "ready"
       /\ ~(\E k \in 1..Len(audit) :
               /\ audit[k].store_id = id /\ audit[k].action = "status_change"
               /\ audit[k].details.status = "failed"
               /\ audit[k].details.errorMessage = MsgTimeout)
       /\ \E j \in 1..Len(audit), k \in 1..Len(audit) :
             /\ j < k
             /\ audit[j].store_id = id /\ audit[j].action = "status_change"
             /\ audit[j].details.status = "failed"
             /\ audit[j].details.errorMessage = MsgHelmFailed
             /\ audit[k].store_id = id /\ audit[k].action = "retry"

\* C18: the audit log is append-only with strictly increasing ids: every
\* step keeps the existing entries as they are and in place, and every entry
\* it appends has an id greater than the ids of all entries before it.
C18_AuditAppendOnly ==
    [][/\ Len(audit') >= Len(audit)
       /\ \A k \in 1..Len(audit) : audit'[k] = audit[k]
       /\ \A k \in (Len(audit) + 1)..Len(audit') :
             \A j \in 1..(k - 1) : audit'[j].id < audit'[k].id]_vars

\* C18 witness: the log holds entries of a create, of status changes and of
\* a delete, appended by the registry, a workflow and the reconciler.
C18_Witness ==
    /\ Len(audit) >= 5
    /\ \E k \in 1..Len(audit) : audit[k].action = "create"
    /\ \E k \in 1..Len(audit) : audit[k].action = "recovery"
    /\ audit[Len(audit)].action = "delete"

\* The characters of a name with the spaces at both ends dropped.
Trimmed(name) ==
    LET keep == {k \in 1..Len(name.chars) :
                    /\ \E j \in 1..k : name.chars[j] # " "
                    /\ \E j \in k..Len(name.chars) : name.chars[j] # " "} IN
    [k \in 1..Cardinality(keep) |->
        name.chars[k + Len(name.chars) - Len(trimStart(name.chars))]]

\* The code C19 gives a create request: that of the first failing check.
FirstFailingCheck(name, engineIn) ==
    IF name.type # "string" \/ Len(Trimmed(name)) = 0
    THEN "MISSING_STORE_NAME"
    ELSE IF Len(Trimmed(name)) = 1 THEN "INVALID_STORE_NAME"
    ELSE IF engineIn \notin {UNDEFINED, "woocommerce", "medusa"}
    THEN "INVALID_ENGINE"
    ELSE IF engineIn = "medusa" THEN "ENGINE_UNAVAILABLE"
    ELSE IF Cardinality(NotDeletedNorFailed(stores)) >= MaxStores
    THEN "QUOTA_EXCEEDED"
    ELSE "OK"

\* C19: POST /stores answers with the code of the first failing check in
\* the order MISSING_STORE_NAME, INVALID_STORE_NAME, INVALID_ENGINE,
\* ENGINE_UNAVAILABLE, QUOTA_EXCEEDED, and a rejected request changes
\* neither table nor the lock and schedules nothing.
C19_CreateValidation ==
    [][\A name \in NameInputs, engineIn \in EngineInputs :
          PostStores(name, engineIn)
          => /\ response'.code = FirstFailingCheck(name, engineIn)
             /\ response'.code # "OK"
                => /\ response'.status \in {400, 429}
                   /\ stores' = stores /\ audit' = audit
                   /\ activeOperations' = activeOperations
                   /\ immediates' = immediates /\ tasks' = tasks]_vars

\* C19 witness: a create was refused for its one-character name while the
\* quota was used up as well.
C19_Witness ==
    /\ response.route = "POST /stores"
    /\ response.code = "INVALID_STORE_NAME"
    /\ getActiveCount(stores) >= MaxStores

\* C20: an accepted POST /stores inserts the record 'queued' with namespace
\* and helm_release equal to its id, logs 'create' and answers 201 in the
\* step that only schedules provisionStore, before any step of the workflow;
\* no step of a workflow or of the reconciler sends a response; and the
\* namespace and helm_release of a record never change.
C20_AsynchronousCreate ==
    [][/\ (response'.route = "POST /stores" /\ response'.status = 201)
          => LET id == response'.id IN
             /\ id \notin DOMAIN stores
             /\ DOMAIN stores' = DOMAIN stores \cup {id}
             /\ stores'[id].status = "queued"
             /\ stores'[id].namespace = id
             /\ stores'[id].helm_release = id
             /\ Len(audit') = Len(audit) + 1
             /\ audit'[Len(audit')].action = "create"
             /\ audit'[Len(audit')].store_id = id
             /\ immediates'
                   = Append(immediates, [fn |-> "provisionStore", id |-> id])
             /\ \A t \in DOMAIN tasks' : tasks'[t].id # id
             /\ id \notin DOMAIN activeOperations'
             /\ id \notin release' /\ id \notin namespace'
       /\ response' # NoResponse
          => /\ tasks' = tasks
             /\ activeOperations' = activeOperations
             /\ recon' = recon
             /\ release' = release /\ namespace' = namespace
             /\ Len(immediates') >= Len(immediates)
       /\ \A id \in DOMAIN stores :
             /\ id \in DOMAIN stores'
             /\ stores'[id].namespace = stores[id].namespace
             /\ stores'[id].helm_release = stores[id].helm_release]_vars

\* C20 witness: a create has just been answered 201 for a store that is
\* 'queued' with its provisionStore call still waiting, after the
\* provisioning of an earlier store failed.
C20_Witness ==
    /\ response.route = "POST /stores" /\ response.status = 201
    /\ stores[response.id].status = "queued"
    /\ \E k \in 1..Len(immediates) :
          immediates[k] = [fn |-> "provisionStore", id |-> response.id]
    /\ \E id \in DOMAIN stores : stores[id].status = "failed"

\* The limit parameter is an integer N written in decimal.
IsIntegerParam(q) ==
    /\ q.type = "string" /\ q.chars # <<>>
    /\ LET signed == Head(q.chars) = "-"
           ds == IF signed THEN Tail(q.chars) ELSE q.chars
       IN ds # <<>> /\ \A k \in 1..Len(ds) : ds[k] \in Digits

IntegerParam(q) ==
    IF Head(q.chars) = "-" THEN 0 - decimalValue(Tail(q.chars))
    ELSE decimalValue(q.chars)

\* The limit parameter is absent, or holds no digit at all.
IsNoNumberParam(q) ==
    \/ q.type = "undefined"
    \/ \A k \in 1..Len(q.chars) : q.chars[k] \notin Digits

Clamp(n, lo, hi) == IF n < lo THEN lo ELSE IF n > hi THEN hi ELSE n

\* C21: GET /audit lists with limit 100 when the parameter is absent or not
\* a number and with min(max(N, 1), 500) when it is the integer N, and the
\* response holds at most that many entries.
C21_AuditLimitClamp ==
    [][\A q \in LimitInputs :
          GetAudit(q)
          => /\ IsNoNumberParam(q)
                => /\ auditLimit(q) = 100
                   /\ Len(response'.audit) <= 100
             /\ IsIntegerParam(q)
                => /\ auditLimit(q) = Clamp(IntegerParam(q), 1, 500)
                   /\ Len(response'.audit)
                         <= Clamp(IntegerParam(q), 1, 500)]_vars

\* The error express.json() passes on when the body is not valid JSON.
IsBodyParseError(err) ==
    err.class = "SyntaxError" /\ err.status = 400 /\ err.hasBody

StepsOf(t) ==
    /\ up /\ up'
    /\ t \in DOMAIN tasks
    /\ t \notin DOMAIN tasks' \/ tasks'[t] # tasks[t]

\* C23: a provision workflow whose deadline has fired has no further
\* effect: none of its steps changes the store record, appends an audit
\* entry or touches the lock.
C23_DeadlineTerminatesWorkflow ==
    [][\A t \in TaskIds :
          (StepsOf(t) /\ tasks[t].fn = "provisionStore"
                      /\ tasks[t].timer = "fired")
          => /\ stores' = stores
             /\ audit' = audit
             /\ activeOperations' = activeOperations]_vars

\* The kind of lock entry a workflow inserts.
KindOf(fn) == IF fn = "provisionStore" THEN "provisioning" ELSE "deleting"

\* The step is taken for store id by a workflow while the lock has the
\* entry of its kind, or by a call that claims the free lock in this step.
UnderOwnLock(id) ==
    \/ (RunsProvisionOf(id) \/ RunsDeleteOf(id)) /\ ~lockHeld(id)
    \/ \E t \in DOMAIN tasks :
          /\ StepsOf(t) /\ tasks[t].id = id
          /\ lockHeld(id)
          /\ activeOperations[id] = KindOf(tasks[t].fn)

\* C24: where no reconciler runs, every change of the status of an existing
\* store is made by a workflow or its deadline handler while the lock has
\* an entry for the store that this workflow inserted.
C24_SerializedUnderLock ==
    [][\A id \in DOMAIN stores :
          stores'[id].status # stores[id].status => UnderOwnLock(id)]_vars

\* C25: provisionStore(id) called while the lock has an entry for id, of
\* either kind, returns without error and changes nothing: store records,
\* lock, audit log and cluster stay as they are, and no workflow or
\* deadline is started.
C25_ProvisionNoOpUnderContention ==
    [][\A id \in StoreIds :
          (RunsProvisionOf(id) /\ lockHeld(id))
          => /\ stores' = stores
             /\ activeOperations' = activeOperations
             /\ audit' = audit
             /\ release' = release /\ namespace' = namespace
             /\ tasks' = tasks
             /\ response' = NoResponse]_vars

\* C25 witness: in a process that never crashed, two retries were accepted
\* one after the other, both calls have run, and only one of them started a
\* workflow.
C25_Witness ==
    /\ crashes = 0 /\ immediates = <<>>
    /\ \E k \in 1..(Len(audit) - 1) :
          /\ audit[k].action = "retry" /\ audit[k + 1].action = "retry"
          /\ audit[k].store_id = audit[k + 1].store_id
          /\ Cardinality({j \in (k + 2)..Len(audit) :
                /\ audit[j].store_id = audit[k].store_id
                /\ audit[j].action = "status_change"
                /\ audit[j].details.status = "provisioning"}) = 1

\* C26: deleteStore(id) called while the lock has an entry for id fails
\* before its try block: the error reaches only the caller's log, and the
\* store records (status, error_message), the lock entry, the audit log and
\* the running workflows stay as they are.
C26_DeleteUnderContention ==
    [][\A id \in StoreIds :
          (RunsDeleteOf(id) /\ lockHeld(id))
          => /\ stores' = stores
             /\ activeOperations' = activeOperations
             /\ audit' = audit
             /\ tasks' = tasks
             /\ release' = release /\ namespace' = namespace
             /\ response' = NoResponse]_vars

\* C26 witness: the deleteStore call of an accepted delete is next to run
\* while the provision workflow of the same store holds the lock.
C26_Witness ==
    /\ up /\ immediates # <<>>
    /\ Head(immediates).fn = "deleteStore"
    /\ lockHeld(Head(immediates).id)
    /\ activeOperations[Head(immediates).id] = "provisioning"
    /\ stores[Head(immediates).id].status = "provisioning"
    /\ \E t \in DOMAIN tasks :
          /\ tasks[t].id = Head(immediates).id
          /\ tasks[t].fn = "provisionStore" /\ tasks[t].timer = "armed"

\* The step ends workflow t: its finally block has run.
Finishes(t) == StepsOf(t) /\ t \notin DOMAIN tasks'

\* C27: every workflow that claimed the lock finishes; when it finishes,
\* its deadline is gone with it and the lock has no entry for its store,
\* and the store of a finished provision workflow is 'ready' or 'failed'.
C27_LockReleaseAndTermination ==
    /\ \A t \in TaskIds : (t \in DOMAIN tasks) ~> (t \notin DOMAIN tasks)
    /\ [][\A t \in TaskIds :
             Finishes(t)
             => /\ tasks[t].id \notin DOMAIN activeOperations'
                /\ tasks[t].fn = "provisionStore"
                   => stores'[tasks[t].id].status \in {"ready", "failed"}]_vars

\* C27 witness: a provision workflow and then a delete workflow of the same
\* store have finished; nothing is running and the lock is empty.
C27_Witness ==
    /\ tasks = <<>> /\ immediates = <<>> /\ activeOperations = <<>>
    /\ \E id \in DOMAIN stores :
          /\ stores[id].status = "deleted"
          /\ LoggedStatus(id, "ready")

\* Workflow t is suspended at pc and this step resumes it (the step is not
\* the firing of its deadline).
ResumesAt(t, pc) ==
    /\ StepsOf(t) /\ tasks[t].pc = pc
    /\ t \in DOMAIN tasks' => tasks'[t].timer = tasks[t].timer

\* C28: the readiness loop makes at most maxAttempts checks, numbered by i
\* from 0. A check that finds the pods ready ends the workflow with the
\* store 'ready'; a check that does not, made with no pod failed, is
\* followed by a sleep and then by check i + 1, or, after the last check, by
\* the end of the workflow with the store 'failed' and the message that the
\* pods did not become ready in time.
C28_ReadinessPollBound ==
    [][\A t \in TaskIds :
          /\ ResumesAt(t, "allPodsReady")
             => /\ tasks[t].i < MaxAttempts
                /\ \/ /\ Finishes(t)
                      /\ stores'[tasks[t].id].status = "ready"
                   \/ /\ tasks'[t].pc = "getPodStatuses"
                      /\ tasks'[t].i = tasks[t].i
                      /\ stores' = stores
          /\ ResumesAt(t, "getPodStatuses")
             => /\ tasks'[t].pc \in {"sleep", "getEvents"}
                /\ tasks'[t].i = tasks[t].i
                /\ stores' = stores
          /\ ResumesAt(t, "sleep")
             => IF tasks[t].i + 1 < MaxAttempts
                THEN /\ tasks'[t].pc = "allPodsReady"
                     /\ tasks'[t].i = tasks[t].i + 1
                     /\ stores' = stores
                ELSE /\ Finishes(t)
                     /\ stores'[tasks[t].id].status = "failed"
                     /\ stores'[tasks[t].id].error_message = MsgNotReady]_vars

\* C28 witness: a store is 'failed' because none of the checks of its
\* workflow found the pods ready.
C28_Witness ==
    \E id \in DOMAIN stores :
       /\ stores[id].status = "failed"
       /\ stores[id].error_message = MsgNotReady
       /\ \A t \in DOMAIN tasks : tasks[t].id # id

\* Pod listings a readiness check can get.
Listings == UNION {[1..n -> PodKinds] : n \in 0..MaxPods}

\* C29: a readiness poll attempt that lists a pod with phase 'Failed' or
\* with more than 5 restarts does not mark the store 'ready' but goes on to
\* the fail-fast test; the pod listing of that test aborts the loop when it
\* shows such a pod, and the workflow then ends with the store 'failed' and
\* a "Pods failed:" message; a listing whose pods have at most 5 restarts
\* and are not 'Failed' lets the loop go on.
C29_FailFast ==
    [][\A t \in TaskIds, pods \in Listings :
          /\ (PollAllPodsReadyWith(t, pods) /\ Len(failedPods(pods)) > 0)
             => /\ t \in DOMAIN tasks'
                /\ tasks'[t].pc = "getPodStatuses"
                /\ stores' = stores
          /\ PollGetPodStatusesWith(t, pods)
             => IF \E k \in 1..Len(pods) :
                      pods[k].phase = "Failed" \/ pods[k].restarts > 5
                THEN tasks'[t].pc = "getEvents"
                ELSE tasks'[t].pc = "sleep"
          /\ ResumesAt(t, "getEvents")
             => /\ Finishes(t)
                /\ stores'[tasks[t].id].status = "failed"
                /\ stores'[tasks[t].id].error_message = MsgPodsFailed]_vars

\* The pod has a condition Ready=True.
HasReadyTrue(pod) ==
    /\ pod.conditions.defined
    /\ \E k \in 1..Len(pod.conditions.list) :
          pod.conditions.list[k] = [type |-> "Ready", status |-> "True"]

\* C30: all_pods_ready is true if and only if at least one pod has a phase
\* other than 'Succeeded' and every pod whose phase is not 'Succeeded' has
\* the condition Ready=True; so it is false for an empty namespace and for a
\* namespace of 'Succeeded' pods only.
C30_ReadinessDefinition ==
    [][response'.route = "kubectl.allPodsReady"
          => LET items == response'.out.items
                 live == {k \in 1..Len(items) :
                             items[k].phase # "Succeeded"} IN
             /\ response'.ready
                   <=> /\ live # {}
                       /\ \A k \in live : HasReadyTrue(items[k])
             /\ live = {} => ~response'.ready]_vars

\* C30 witness: the check has returned true for a namespace with a finished
\* pod that is not Ready and a running pod that is.
C30_Witness ==
    /\ response.route = "kubectl.allPodsReady"
    /\ response.ready
    /\ Len(response.pods) = 2
    /\ \E j, k \in 1..2 :
          /\ response.pods[j].phase = "Succeeded" /\ ~response.pods[j].ready
          /\ response.pods[k].phase = "Running" /\ response.pods[k].ready

\* What kubectl get pods returns when the command fails.
QueryFailure == [failed |-> TRUE, items |-> <<>>]

\* C31: when the cluster query for a stuck store fails during startup
\* reconciliation, the store becomes 'failed' with a message of the form
\* "Recovery failed: <reason>" and the reconciler goes on with the stuck
\* stores that remain.
C31_ReconcilerQueryErrors ==
    [][RecoverWith(getPodStatuses(QueryFailure))
          => /\ stores'[Head(recon)].status = "failed"
             /\ stores'[Head(recon)].error_message = MsgRecoveryFailed
             /\ recon' = Tail(recon)]_vars

\* The step is one of the reconciler: the listing at startup, or the loop
\* body for the next stuck store.
ReconcilerStep ==
    \/ ~up /\ up'
    \/ up /\ up' /\ recon # <<>> /\ recon' = Tail(recon)

\* C32: the reconciler never resumes work. Its steps leave the cluster, the
\* lock, the callback queue and the workflows as they are; it lists only
\* stores that are 'queued' or 'provisioning', and its loop body changes
\* the record of the listed store only, so stores that were 'ready',
\* 'failed', 'deleting' or 'deleted' at listing time are not touched by it.
C32_ReconcilerNeverResumes ==
    [][ReconcilerStep
          => /\ release' = release /\ namespace' = namespace
             /\ activeOperations' = activeOperations
             /\ tasks' = tasks /\ immediates' = immediates
             /\ ~up => /\ stores' = stores /\ audit' = audit
                       /\ \A k \in 1..Len(recon') :
                             stores[recon'[k]].status
                                \in {"queued", "provisioning"}
             /\ up => \A id \in DOMAIN stores :
                         id # Head(recon) => stores'[id] = stores[id]]_vars

\* C32 witness: the reconciler has finished after a restart; its last entry
\* is for one store, and another store, whose install had failed before the
\* crash, still has its record.
C32_Witness ==
    /\ up /\ crashes > 0 /\ recon = <<>>
    /\ audit # <<>> /\ audit[Len(audit)].action = "recovery"
    /\ \E id \in DOMAIN stores :
          /\ id # audit[Len(audit)].store_id
          /\ stores[id].status = "failed"
          /\ stores[id].error_message = MsgHelmFailed

\* The status an audit entry records: create inserts at 'queued',
\* status_change names the status, delete is the write of 'deleted'; retry
\* and recovery entries record no status write.
RecordsStatus(e) == e.action \in {"create", "status_change", "delete"}

StatusOf(e) ==
    IF e.action = "create" THEN "queued"
    ELSE IF e.action = "delete" THEN "deleted"
    ELSE e.details.status

\* The statuses recorded for store id by the entries of au, in id order.
RECURSIVE StatusTrail(_, _)
StatusTrail(au, id) ==
    IF au = <<>> THEN <<>>
    ELSE LET rest == StatusTrail(SubSeq(au, 1, Len(au) - 1), id)
             e == au[Len(au)] IN
         IF e.store_id = id /\ RecordsStatus(e)
         THEN Append(rest, StatusOf(e)) ELSE rest

C34_AuditBestEffort ==
    [][\A id \in DOMAIN stores' \ DOMAIN stores :
          /\ response'.route = "POST /stores"
          /\ response'.status = 201
          /\ immediates' = setImmediate(immediates, "provisionStore", id)]_vars

C36_LockOwnership ==
    [][\A t \in DOMAIN tasks :
          (Finishes(t) /\ tasks[t].timer = "fired")
          => ~ /\ tasks[t].id \in DOMAIN activeOperations
               /\ tasks[t].id \notin DOMAIN activeOperations']_vars

\* C37: when the reconciler writes 'ready' or 'failed' to a store, the
\* status persisted for that store at the moment of the write is still
\* 'provisioning' or 'queued' and no workflow holds the lock for it.
C37_ReconcilerDoesNotClobber ==
    [][(up /\ up' /\ recon # <<>> /\ recon' = Tail(recon))
          => /\ stores[Head(recon)].status \in {"provisioning", "queued"}
             /\ Head(recon) \notin DOMAIN activeOperations]_vars

\* C38: in crash-free executions a store is 'provisioning' only while the
\* lock holds a 'provisioning' entry for it, and 'deleting' only while the
\* lock holds a 'deleting' entry for it.
C38_StatusAndLockAgree ==
    \A id \in DOMAIN stores :
       stores[id].status \in {"provisioning", "deleting"}
       => /\ id \in DOMAIN activeOperations
          /\ activeOperations[id] = stores[id].status

\* C38 witness: a delete workflow holds the lock of a store that is
\* 'deleting' while a provision workflow of the same store, whose deadline
\* has fired, is still running.
C38_Witness ==
    \E id \in DOMAIN stores :
       /\ stores[id].status = "deleting"
       /\ id \in DOMAIN activeOperations /\ activeOperations[id] = "deleting"
       /\ \E t \in DOMAIN tasks :
             /\ tasks[t].id = id /\ tasks[t].fn = "provisionStore"
             /\ tasks[t].timer = "fired"

\* The awaits at which a provision workflow can be suspended.
ProvisionAwaits ==
    {"install.releaseExists", "install.helmExec", "allPodsReady",
     "getPodStatuses", "getEvents", "sleep"}

\* The step is a deadline acting on store id: it writes 'failed' under the
\* timeout message.
DeadlineActs(id) ==
    /\ up /\ up'
    /\ Len(audit') = Len(audit) + 1
    /\ LET e == audit'[Len(audit')] IN
          /\ e.store_id = id /\ e.action = "status_change"
          /\ e.details = [status |-> "failed", errorMessage |-> MsgTimeout]

\* C39: the deadline of a provision workflow that has finished never acts.
\* Every step in which a deadline writes 'failed' and removes a lock entry
\* belongs to a provision workflow of that store that is still suspended at
\* an await, it is that workflow's first and only deadline, and the store
\* it fails was not 'ready'.
C39_NoLateDeadline ==
    [][\A id \in StoreIds :
          DeadlineActs(id)
          => /\ stores[id].status # "ready"
             /\ \E t \in DOMAIN tasks :
                   /\ tasks[t].fn = "provisionStore" /\ tasks[t].id = id
                   /\ tasks[t].pc \in ProvisionAwaits
                   /\ tasks[t].timer = "armed"
                   /\ t \in DOMAIN tasks' /\ tasks'[t].timer = "fired"]_vars

\* C39 witness: a provision workflow has ended with the store 'ready', its
\* timer still armed when it ended; a delete workflow of the same store
\* now holds the lock, and no deadline has acted on the store.
C39_Witness ==
    \E id \in DOMAIN stores :
       /\ stores[id].status = "deleting"
       /\ id \in DOMAIN activeOperations
       /\ \A t \in DOMAIN tasks : tasks[t].fn = "deleteStore"
       /\ StatusTrail(audit, id)
             = <<"queued", "provisioning", "ready", "deleting">>

====
